---- MODULE Spec2Model ----
(***************************************************************************)
(* Linarith.activate (estimates/linarith.py): the linear-arithmetic tactic. *)
(* The hypotheses of a proof state and the negated goal are turned into    *)
(* scenarios (one per choice of strict ordering for every disequality),    *)
(* each scenario is normalised into a list of Inequality constraints and   *)
(* handed to the feasibility oracle, until one scenario is feasible.       *)
(***************************************************************************)
EXTENDS Integers, Sequences, FiniteSets, Bags, TLC

VARIABLES
    state,                \* the ProofState passed to activate
    incoming,             \* ghost: the ProofState as it was when activate was called
    verbose,              \* self.verbose
    pc,                   \* position in activate: start, options, loop, done
    hypotheses,           \* local: the set gathered at lines 35-38
    scenarios,            \* local: the list built at lines 52-54
    idx,                  \* the scenarios the for loop of line 60 has taken, plus one
    inequalities,         \* local: the constraint list of the current scenario
    inequalities_list,    \* local: the constraint lists sent to the oracle
    proofs,               \* local: the infeasibility certificates recorded
    found_counterexample, \* local
    dict,                 \* local: the oracle's last certificate
    result,               \* the list returned by activate
    output,               \* what activate printed
    calls,                \* ghost: the oracle calls of this invocation, in order
    oracle,               \* the oracle's answers so far (it is deterministic)
    prev                  \* ghost: the outcome of the previous invocation

vars == <<state, incoming, verbose, pc, hypotheses, scenarios, idx, inequalities,
          inequalities_list, proofs, found_counterexample, dict, result, output,
          calls, oracle, prev>>

(***************************************************************************)
(* Bounds of the model.                                                    *)
(***************************************************************************)
MaxHyps == 2   \* hypotheses in the proof state besides the goal
MaxVal == 2    \* variable assignments take values in -MaxVal..MaxVal
MaxCoef == 2   \* coefficients of the expressions of the wide hypothesis universe

(***************************************************************************)
(* Symbols and their sympy assumptions.  x: real; n: positive integer;     *)
(* p: positive real; q: non-negative real; v: not known to be real.        *)
(* ONE is the key S(1) under which as_coefficients_dict files the constant.*)
(***************************************************************************)
Vars == {"x", "n", "p", "q", "v"}
One == "ONE"
Terms == Vars \cup {One}

is_positive(t) == t \in {"n", "p", One}
is_integer(t) == t \in {"n", One}
is_nonnegative(t) == t \in {"n", "p", "q", One}
is_real(t) == t # "v"

(***************************************************************************)
(* Linear expressions: a coefficient for every term (0: the term is absent)*)
(***************************************************************************)
Zero == [t \in Terms |-> 0]
Sym(t) == [u \in Terms |-> IF u = t THEN 1 ELSE 0]
Num(c) == [u \in Terms |-> IF u = One THEN c ELSE 0]
Plus(a, b) == [t \in Terms |-> a[t] + b[t]]
Times(k, a) == [t \in Terms |-> k * a[t]]
Sub(a, b) == [t \in Terms |-> a[t] - b[t]]

\* What sympy can tell about the sign of an expression from the assumptions
\* of its terms (every term of one sign).
KnownNonneg(d) == \A t \in Terms : d[t] = 0 \/ (d[t] > 0 /\ is_nonnegative(t))
KnownNonpos(d) == \A t \in Terms : d[t] = 0 \/ (d[t] < 0 /\ is_nonnegative(t))
KnownPos(d) == KnownNonneg(d) /\ \E t \in Terms : d[t] > 0 /\ is_positive(t)
KnownNeg(d) == KnownNonpos(d) /\ \E t \in Terms : d[t] < 0 /\ is_positive(t)

(***************************************************************************)
(* Hypotheses.  kind: Type (a typed variable declaration), the relations   *)
(* Eq Le Lt Ge Gt Ne, the booleans true / false, other (any other shape).  *)
(***************************************************************************)
RelationalKinds == {"Eq", "Le", "Lt", "Ge", "Gt", "Ne"}
NoVar == "-"
Type(v) == [kind |-> "Type", var |-> v, lhs |-> Zero, rhs |-> Zero]
Rel(k, a, b) == [kind |-> k, var |-> NoVar, lhs |-> a, rhs |-> b]
false == [kind |-> "false", var |-> NoVar, lhs |-> Zero, rhs |-> Zero]
true == [kind |-> "true", var |-> NoVar, lhs |-> Zero, rhs |-> Zero]
Other == [kind |-> "other", var |-> NoVar, lhs |-> Zero, rhs |-> Zero]

\* sympy evaluates a relation when it is built: a relation the assumptions
\* decide is a boolean, never a Relational.
Decided(k, a, b) ==
    LET d == Sub(a, b) IN
    CASE k \in {"Lt", "Ge"} -> KnownNonneg(d) \/ KnownNeg(d)
      [] k \in {"Gt", "Le"} -> KnownNonpos(d) \/ KnownPos(d)
      [] OTHER -> d = Zero \/ KnownPos(d) \/ KnownNeg(d)

StrictLessThan(a, b) ==
    LET d == Sub(a, b) IN
    IF KnownNonneg(d) THEN false
    ELSE IF KnownNeg(d) THEN true
    ELSE Rel("Lt", a, b)

\* Not(goal): sympy negates a relation into the complementary relation.
Not(g) ==
    CASE g.kind = "Eq" -> Rel("Ne", g.lhs, g.rhs)
      [] g.kind = "Ne" -> Rel("Eq", g.lhs, g.rhs)
      [] g.kind = "Lt" -> Rel("Ge", g.lhs, g.rhs)
      [] g.kind = "Le" -> Rel("Gt", g.lhs, g.rhs)
      [] g.kind = "Ge" -> Rel("Lt", g.lhs, g.rhs)
      [] g.kind = "Gt" -> Rel("Le", g.lhs, g.rhs)
      [] g.kind = "true" -> false
      [] g.kind = "false" -> true
      [] OTHER -> Other

(***************************************************************************)
(* Constraint model and hypothesis normaliser (lines 62-110).  A list of   *)
(* constraints is kept as a bag: the list up to the iteration order of the *)
(* scenario set it was built from.                                         *)
(***************************************************************************)
Inequality(coeffs, rel, const) == [coeffs |-> coeffs, rel |-> rel, const |-> const]

OneBag(c) == SetToBag({c})

\* Expr.as_coefficients_dict: the terms present, with their coefficients
\* (the expression 0 is filed as {1: 0}).
as_coefficients_dict(e) ==
    IF e = Zero THEN [t \in {One} |-> 0]
    ELSE [t \in {u \in Terms : e[u] # 0} |-> e[t]]

\* The test of lines 88-94, were it missing.
AllRealAlways(coeffs) == TRUE

\* lines 88-92
AllReal(coeffs) == \A t \in DOMAIN coeffs : is_real(t)

\* The positivity conditions, were the integrality gap of lines 70-73 missing.
TypeInequalitiesNoGap(h) ==
    IF is_positive(h.var)
    THEN OneBag(Inequality([t \in {h.var} |-> 1], "gt", 0))
    ELSE IF is_nonnegative(h.var)
         THEN OneBag(Inequality([t \in {h.var} |-> 1], "geq", 0))
         ELSE EmptyBag

\* lines 66-81: the positivity conditions of a typed variable
TypeInequalities(h) ==
    IF is_positive(h.var)
    THEN IF is_integer(h.var)
         THEN OneBag(Inequality([t \in {h.var} |-> 1], "geq", 1))
         ELSE OneBag(Inequality([t \in {h.var} |-> 1], "gt", 0))
    ELSE IF is_nonnegative(h.var)
         THEN OneBag(Inequality([t \in {h.var} |-> 1], "geq", 0))
         ELSE EmptyBag

\* The constant, were it not negated.
ConstOfNotNegated(coeffs) == IF One \in DOMAIN coeffs THEN coeffs[One] ELSE 0

\* lines 96-100: the constant is moved to the right-hand side
ConstOf(coeffs) == IF One \in DOMAIN coeffs THEN 0 - coeffs[One] ELSE 0

\* lines 96-98: del coeffs[S(1)]
WithoutOne(coeffs) == [t \in (DOMAIN coeffs) \ {One} |-> coeffs[t]]

\* lines 82-110
RelationalInequalities(h) ==
    LET coeffs == as_coefficients_dict(Sub(h.lhs, h.rhs)) IN
    IF ~AllReal(coeffs) THEN EmptyBag
    ELSE LET const == ConstOf(coeffs)
             cs == WithoutOne(coeffs)
         IN CASE h.kind = "Eq" -> OneBag(Inequality(cs, "eq", const))
              [] h.kind = "Le" -> OneBag(Inequality(cs, "leq", const))
              [] h.kind = "Lt" -> OneBag(Inequality(cs, "lt", const))
              [] h.kind = "Ge" -> OneBag(Inequality(cs, "geq", const))
              [] h.kind = "Gt" -> OneBag(Inequality(cs, "gt", const))
              [] OTHER -> EmptyBag

\* lines 65-110: what one hypothesis of a scenario appends
HypInequalities(h) ==
    IF h.kind = "Type" THEN TypeInequalities(h)
    ELSE IF h.kind \in RelationalKinds THEN RelationalInequalities(h)
    ELSE EmptyBag

RECURSIVE ScenarioInequalities(_)
\* lines 62, 65-110: the constraint list of a scenario
ScenarioInequalities(scenario) ==
    IF scenario = {} THEN EmptyBag
    ELSE LET h == CHOOSE g \in scenario : TRUE
         IN HypInequalities(h) (+) ScenarioInequalities(scenario \ {h})

\* The test of line 63, were it missing.
IsDroppedNever(scenario) == FALSE

\* lines 63-64
IsDropped(scenario) == false \in scenario

(***************************************************************************)
(* Options and scenarios (lines 41-54).                                    *)
(***************************************************************************)
SingleOptionKinds == {"Eq", "Le", "Lt", "Ge", "Gt", "Type"}

\* The options of line 49, were the second ordering left out.
NeOptionsFirstOnly(h) == <<StrictLessThan(h.lhs, h.rhs)>>

\* The options of line 49, were the same ordering given twice.
NeOptionsSameTwice(h) == <<StrictLessThan(h.lhs, h.rhs), StrictLessThan(h.lhs, h.rhs)>>

\* line 49
NeOptions(h) == <<StrictLessThan(h.lhs, h.rhs), StrictLessThan(h.rhs, h.lhs)>>

RECURSIVE OptionsOf(_)
\* lines 41-49, for the hypotheses in their iteration order
OptionsOf(order) ==
    IF order = <<>> THEN <<>>
    ELSE LET h == Head(order)
             rest == OptionsOf(Tail(order))
         IN IF h.kind \in SingleOptionKinds THEN <<(<<h>>)>> \o rest
            ELSE IF h.kind = "Ne" THEN <<NeOptions(h)>> \o rest
            ELSE rest

RECURSIVE Product(_)
\* lines 52-54: itertools.product, every choice collected into a set
Product(options) ==
    IF options = <<>> THEN << {} >>
    ELSE LET first == Head(options)
             rest == Product(Tail(options))
             With(i) == [k \in 1..Len(rest) |-> {first[i]} \cup rest[k]]
         IN IF Len(first) = 1 THEN With(1) ELSE With(1) \o With(2)

\* The orders in which a set can be iterated.
Orders(S) ==
    {f \in [1..Cardinality(S) -> S] : \A i, j \in 1..Cardinality(S) : f[i] = f[j] => i = j}

(***************************************************************************)
(* The feasibility oracle: deterministic, otherwise arbitrary.  Its answer *)
(* to a constraint set is chosen the first time the set is asked about.    *)
(***************************************************************************)
NoDict == [kind |-> "none", of |-> {}]

OracleAnswers(cs) ==
    IF \E a \in oracle : a.input = cs
    THEN {a.outcome : a \in {b \in oracle : b.input = cs}}
    ELSE BOOLEAN

\* The certificate is determined by the constraints and the outcome.
Certificate(cs, outcome) ==
    [kind |-> IF outcome THEN "witness" ELSE "proof", of |-> cs]

(***************************************************************************)
(* activate                                                                *)
(***************************************************************************)
NoOutput == [msg |-> "", ineqs |-> EmptyBag, dict |-> NoDict, trace |-> <<>>]
NoPrev ==
    [kind |-> "none", found |-> FALSE, scenarios |-> <<>>, proofs |-> {}, dict |-> NoDict]

\* The locals of activate before it has run.
InitLocals ==
    /\ hypotheses = {}
    /\ scenarios = <<>>
    /\ idx = 1
    /\ inequalities = EmptyBag
    /\ inequalities_list = <<>>
    /\ proofs = <<>>
    /\ found_counterexample = FALSE
    /\ dict = NoDict
    /\ result = <<>>
    /\ output = NoOutput
    /\ calls = <<>>

\* A new invocation starts with fresh locals.
ResetLocals ==
    /\ hypotheses' = {}
    /\ scenarios' = <<>>
    /\ idx' = 1
    /\ inequalities' = EmptyBag
    /\ inequalities_list' = <<>>
    /\ proofs' = <<>>
    /\ found_counterexample' = FALSE
    /\ dict' = NoDict
    /\ result' = <<>>
    /\ output' = NoOutput
    /\ calls' = <<>>

\* ProofState.copy
Copy(st) == [hypotheses |-> st.hypotheses, goal |-> st.goal]

\* lines 35-38
Gather ==
    /\ pc = "start"
    /\ hypotheses' = state.hypotheses \cup {Not(state.goal)}
    /\ pc' = "options"
    /\ UNCHANGED <<state, incoming, verbose, scenarios, idx, inequalities,
                   inequalities_list, proofs, found_counterexample, dict, result,
                   output, calls, oracle, prev>>

\* lines 41-58
BuildScenarios ==
    /\ pc = "options"
    /\ \E order \in Orders(hypotheses) :
          scenarios' = Product(OptionsOf(order))
    /\ found_counterexample' = FALSE
    /\ proofs' = <<>>
    /\ inequalities_list' = <<>>
    /\ idx' = 1
    /\ pc' = "loop"
    /\ UNCHANGED <<state, incoming, verbose, hypotheses, inequalities, dict, result,
                   output, calls, oracle, prev>>

\* The loop condition, were the break of line 116 missing.
LoopContinuesNoBreak(found, i, n) == i <= n

\* line 60 with the break of line 116: the loop goes on
LoopContinues(found, i, n) == ~found /\ i <= n

\* The recording of line 118, were it done for feasible scenarios too.
RecordProofAlways(ps, outcome, d) == Append(ps, d)

\* lines 117-118
RecordProof(ps, outcome, d) == IF outcome THEN ps ELSE Append(ps, d)

\* The loop position after line 64, were it a break.
AfterDroppedBreak(i, n) == n + 1

\* line 64: continue
AfterDropped(i, n) == i + 1

\* lines 60-118: one iteration
LoopStep ==
    /\ pc = "loop"
    /\ LoopContinues(found_counterexample, idx, Len(scenarios))
    /\ LET scenario == scenarios[idx] IN
       IF IsDropped(scenario)
       THEN /\ inequalities' = EmptyBag
            /\ idx' = AfterDropped(idx, Len(scenarios))
            /\ UNCHANGED <<inequalities_list, proofs, found_counterexample, dict,
                           calls, oracle>>
       ELSE LET ineqs == ScenarioInequalities(scenario)
                cs == BagToSet(ineqs)
            IN /\ inequalities' = ineqs
               /\ inequalities_list' = Append(inequalities_list, ineqs)
               /\ \E outcome \in OracleAnswers(cs) :
                     /\ oracle' = oracle \cup {[input |-> cs, outcome |-> outcome]}
                     /\ dict' = Certificate(cs, outcome)
                     /\ calls' = Append(calls, [scenario |-> scenario, input |-> cs,
                                                outcome |-> outcome,
                                                dict |-> Certificate(cs, outcome)])
                     /\ found_counterexample' = (found_counterexample \/ outcome)
                     /\ proofs' = RecordProof(proofs, outcome, Certificate(cs, outcome))
                     /\ idx' = idx + 1
    /\ UNCHANGED <<state, incoming, verbose, pc, hypotheses, scenarios, result,
                   output, prev>>

\* The list returned, were the Refuted branch to return the empty list too.
ReturnedEmpty(found, st) == <<>>

\* lines 120-135 and 136-153: the list returned
Returned(found, st) == IF found THEN <<Copy(st)>> ELSE <<>>

\* lines 138-148: the constraint lists beside their certificates
ProvedTrace(lists, ps) == [n \in 1..Len(lists) |-> <<lists[n], ps[n]>>]

\* lines 120-153
Report ==
    /\ pc = "loop"
    /\ ~LoopContinues(found_counterexample, idx, Len(scenarios))
    /\ result' = Returned(found_counterexample, state)
    /\ IF found_counterexample
       THEN IF verbose
            THEN \E valid \in BOOLEAN :
                    output' = [msg |-> IF valid THEN "counterexample" ELSE "unable",
                               ineqs |-> inequalities, dict |-> dict, trace |-> <<>>]
            ELSE output' = [NoOutput EXCEPT !.msg = "unable"]
       ELSE IF verbose
            THEN output' = [NoOutput EXCEPT
                              !.msg = IF Len(inequalities_list) = 0
                                      THEN "tautological" ELSE "infeasible",
                              !.trace = ProvedTrace(inequalities_list, proofs)]
            ELSE output' = [NoOutput EXCEPT !.msg = "solved"]
    /\ pc' = "done"
    /\ UNCHANGED <<state, incoming, verbose, hypotheses, scenarios, idx, inequalities,
                   inequalities_list, proofs, found_counterexample, dict, calls,
                   oracle, prev>>

Outcome(kind) ==
    [kind |-> kind, found |-> found_counterexample, scenarios |-> scenarios,
     proofs |-> {proofs[k] : k \in 1..Len(proofs)}, dict |-> dict]

\* The tactic is activated again on the same proof state.
ReinvokeSame ==
    /\ pc = "done"
    /\ prev.kind = "none"
    /\ prev' = Outcome("same")
    /\ pc' = "start"
    /\ ResetLocals
    /\ UNCHANGED <<state, incoming, verbose, oracle>>

\* lines 88-94: a relation whose difference keeps a term that is not real
NonRealRelational(h) ==
    /\ h.kind \in RelationalKinds
    /\ \E t \in Terms : h.lhs[t] - h.rhs[t] # 0 /\ ~is_real(t)

\* The tactic is activated on the proof state with one non-real relation left out.
ReinvokeWithout ==
    /\ pc = "done"
    /\ prev.kind = "none"
    /\ \E h \in state.hypotheses :
          /\ NonRealRelational(h)
          /\ state' = [state EXCEPT !.hypotheses = @ \ {h}]
    /\ incoming' = state'
    /\ prev' = Outcome("omitted")
    /\ pc' = "start"
    /\ ResetLocals
    /\ UNCHANGED <<verbose, oracle>>

Next == Gather \/ BuildScenarios \/ LoopStep \/ Report \/ ReinvokeSame \/ ReinvokeWithout

(***************************************************************************)
(* Proof states the tactic is activated on.                                *)
(***************************************************************************)
ex == Sym("x")
en == Sym("n")
eq == Sym("q")
ev == Sym("v")

\* Hypotheses of the proof state: declarations and relations sympy leaves open.
HypU ==
    { Type("n"), Type("q"),
      Rel("Lt", ex, Num(1)), Rel("Gt", ex, Num(0)), Rel("Lt", ex, en),
      Rel("Ne", ex, en), Rel("Ne", Num(0), eq),
      Rel("Eq", ev, Num(0)), Rel("Ne", ev, Num(0)) }

GoalU == { Rel("Ne", ex, Num(1)), Rel("Eq", ex, Num(1)), Other }

Start(H, g, vb) ==
    /\ state = [hypotheses |-> H, goal |-> g]
    /\ incoming = state
    /\ verbose = vb
    /\ pc = "start"
    /\ InitLocals
    /\ oracle = {}
    /\ prev = NoPrev

Init ==
    \E H \in SUBSET HypU : \E g \in GoalU : \E vb \in BOOLEAN :
        /\ Cardinality(H) <= MaxHyps
        /\ Start(H, g, vb)

Spec == Init /\ [][Next]_vars

(***************************************************************************)
(* A single hypothesis from a wide universe, with a goal that contributes  *)
(* nothing: the normaliser on every shape of hypothesis.                   *)
(***************************************************************************)
ExprL ==
    {Plus(Times(c, Sym(t)), Num(d)) : t \in Vars, c \in 1..MaxCoef, d \in 0..1}
        \cup {Plus(ex, ev)}
ExprR == {Num(0), Num(1), ex, en, ev}

HypAll ==
    {Type(t) : t \in Vars} \cup
    {h \in {Rel(k, a, b) : k \in RelationalKinds, a \in ExprL, b \in ExprR} :
        ~Decided(h.kind, h.lhs, h.rhs)}

InitNorm == \E h \in HypAll : Start({h}, Other, FALSE)

SpecNorm == InitNorm /\ [][Next]_vars

(***************************************************************************)
(* Meaning of hypotheses and constraints under an assignment of values to  *)
(* the variables that respects their declared types.                       *)
(***************************************************************************)
Values == (0 - MaxVal)..MaxVal

\* The values a variable of the given type can take.
ValuesOf(t) ==
    {k \in Values : (is_positive(t) => k > 0) /\ (is_nonnegative(t) => k >= 0)}

\* The variables a set of hypotheses is about.
VarsOf(H) ==
    {t \in Vars : \E h \in H : h.var = t \/ h.lhs[t] # 0 \/ h.rhs[t] # 0}

\* The values tried for a variable: every value of its type when the
\* hypotheses are about it, one value otherwise.
Tried(t, R) ==
    IF t \in R THEN ValuesOf(t) ELSE {CHOOSE k \in ValuesOf(t) : TRUE}

\* The assignments of typed values to the variables of R.
AssignmentsOver(R) ==
    {[t \in Vars |-> CASE t = "x" -> w[1] [] t = "n" -> w[2] [] t = "p" -> w[3]
                       [] t = "q" -> w[4] [] OTHER -> w[5]] :
        w \in Tried("x", R) \X Tried("n", R) \X Tried("p", R)
                \X Tried("q", R) \X Tried("v", R)}

Part(coeffs, a, t) == IF t \in DOMAIN coeffs THEN coeffs[t] * a[t] ELSE 0

\* The value of a linear combination under an assignment.
Dot(coeffs, a) ==
    Part(coeffs, a, "x") + Part(coeffs, a, "n") + Part(coeffs, a, "p")
        + Part(coeffs, a, "q") + Part(coeffs, a, "v")
        + (IF One \in DOMAIN coeffs THEN coeffs[One] ELSE 0)

ValueOf(e, a) == Dot(e, a)

Holds(rel, l, r) ==
    CASE rel = "eq" -> l = r
      [] rel = "leq" -> l <= r
      [] rel = "lt" -> l < r
      [] rel = "geq" -> l >= r
      [] rel = "gt" -> l > r

ConSat(c, a) == Holds(c.rel, Dot(c.coeffs, a), c.const)

HypSat(h, a) ==
    LET l == ValueOf(h.lhs, a)
        r == ValueOf(h.rhs, a)
    IN CASE h.kind = "Eq" -> l = r
         [] h.kind = "Le" -> l <= r
         [] h.kind = "Lt" -> l < r
         [] h.kind = "Ge" -> l >= r
         [] h.kind = "Gt" -> l > r
         [] h.kind = "Ne" -> l < r \/ r < l
         [] h.kind = "false" -> FALSE
         [] OTHER -> TRUE

Built == pc \in {"loop", "done"}
JustBuilt == pc = "loop" /\ idx = 1 /\ prev.kind = "none"
Taken == idx - 1
Verdict == IF found_counterexample THEN "Refuted" ELSE "Proved"
ProofSet == {proofs[k] : k \in 1..Len(proofs)}

(***************************************************************************)
(* Properties                                                              *)
(***************************************************************************)

\* C1: activate returns the empty list exactly when no scenario passed to
\* the oracle was reported feasible, and otherwise a one-element list holding
\* a copy equal to the incoming proof state; the proof state it was given is
\* never modified.
C1_ReturnContract ==
    /\ state = incoming
    /\ pc = "done" =>
          /\ (result = <<>>) <=> (\A k \in 1..Len(calls) : ~calls[k].outcome)
          /\ result # <<>> => result = <<incoming>>
          /\ (Len(result) = 0 /\ Verdict = "Proved")
                \/ (Len(result) = 1 /\ Verdict = "Refuted")

C1_Witness ==
    /\ pc = "done"
    /\ result = <<incoming>>
    /\ Len(calls) >= 2
    /\ calls[Len(calls)].outcome

\* C2: once the oracle has reported a scenario feasible no further scenario
\* is queried (the feasible answer is the last oracle call of the
\* invocation), and its witness is the one the Refuted verdict reports.
C2_ShortCircuit ==
    /\ \A k \in 1..Len(calls) : calls[k].outcome => k = Len(calls)
    /\ (pc = "done" /\ found_counterexample) =>
          /\ Len(calls) >= 1
          /\ calls[Len(calls)].outcome
          /\ dict = calls[Len(calls)].dict
          /\ dict.kind = "witness"
          /\ verbose => output.dict = calls[Len(calls)].dict
                        /\ BagToSet(output.ineqs) = calls[Len(calls)].input

C2_Witness ==
    /\ pc = "done"
    /\ found_counterexample
    /\ Len(calls) >= 1
    /\ Len(calls) < Len(scenarios)
    /\ \E k \in (Taken + 1)..Len(scenarios) : ~IsDropped(scenarios[k])

\* A constraint with no variable whose relation fails on the constants.
StaticallyFalse(c) == DOMAIN c.coeffs = {} /\ ~Holds(c.rel, 0, c.const)

\* C8: a scenario holding a statically-false member is dropped: it is never
\* sent to the oracle, never yields the Refuted verdict, and no certificate
\* is recorded for it (the certificates are those of the other scenarios).
C8_FalseScenarioDropped ==
    LET kept == {k \in 1..Taken : ~(false \in scenarios[k])} IN
    Built =>
       /\ \A k \in 1..Len(calls) :
             /\ ~(false \in calls[k].scenario)
             /\ \A c \in calls[k].input : ~StaticallyFalse(c)
       /\ Len(calls) = Cardinality(kept)
       /\ Len(inequalities_list) = Cardinality(kept)
       /\ Len(proofs) = Cardinality({k \in 1..Len(calls) : ~calls[k].outcome})
       /\ (Taken >= 1 /\ false \in scenarios[Taken]) =>
             /\ inequalities = EmptyBag
             /\ ~found_counterexample

C8_Witness ==
    /\ pc = "done"
    /\ \E k \in 1..Taken : false \in scenarios[k]
    /\ Len(proofs) >= 1

\* C9: in the loop the recorded certificates and the queried constraint
\* lists have the same length, except for the one feasible scenario that
\* ends the loop; when the verdict is Proved the n-th certificate is the
\* oracle's answer for the n-th queried constraint list, and the verbose
\* trace pairs each constraint list with that certificate.
C9_CertificatePerQuery ==
    Built =>
       /\ Len(inequalities_list) = Len(proofs) + (IF found_counterexample THEN 1 ELSE 0)
       /\ Len(inequalities_list) = Len(calls)
       /\ \A n \in 1..Len(proofs) :
             /\ calls[n].input = BagToSet(inequalities_list[n])
             /\ proofs[n] = calls[n].dict
             /\ ~calls[n].outcome
       /\ (pc = "done" /\ ~found_counterexample /\ verbose) =>
             /\ Len(output.trace) = Len(calls)
             /\ \A n \in 1..Len(calls) :
                   output.trace[n] = <<inequalities_list[n], calls[n].dict>>

C9_Witness ==
    /\ pc = "done"
    /\ ~found_counterexample
    /\ verbose
    /\ Len(proofs) >= 2
    /\ proofs[1] # proofs[2]

\* The constraint sets of the scenarios that are not dropped.
Regions ==
    {BagToSet(ScenarioInequalities(scenarios[k])) :
        k \in {j \in 1..Len(scenarios) : ~(false \in scenarios[j])}}

\* The assignment satisfies every constraint of some scenario that is not dropped.
InSome(regions, a) == \E r \in regions : \A c \in r : ConSat(c, a)

\* C3 as stated: every assignment satisfying the hypotheses (a disequality
\* read as a < b or b < a) satisfies the constraints of some scenario, and
\* the union of the scenarios' feasible regions equals the feasible region
\* of the hypotheses.
C3_RegionsEqual ==
    JustBuilt =>
       LET regions == Regions IN
       \A a \in AssignmentsOver(VarsOf(hypotheses)) :
          (\A h \in hypotheses : HypSat(h, a)) <=> InSome(regions, a)

\* C3 amended: every assignment (respecting the variables' types) that
\* satisfies the hypotheses satisfies every constraint of some scenario that
\* is not dropped; conversely an assignment satisfying some scenario's
\* constraints satisfies every hypothesis except, possibly, the relations
\* over non-real quantities, which contribute no constraint.
C3_CaseSplitComplete ==
    JustBuilt =>
       LET regions == Regions IN
       \A a \in AssignmentsOver(VarsOf(hypotheses)) :
          /\ (\A h \in hypotheses : HypSat(h, a)) => InSome(regions, a)
          /\ InSome(regions, a) =>
                \A h \in hypotheses : NonRealRelational(h) \/ HypSat(h, a)

C3_Witness ==
    /\ JustBuilt
    /\ Len(scenarios) = 4
    /\ \E k \in 1..4 : false \in scenarios[k]
    /\ \E a \in AssignmentsOver(VarsOf(hypotheses)) :
          /\ \A h \in hypotheses : HypSat(h, a)
          /\ ~(\A c \in BagToSet(ScenarioInequalities(scenarios[2])) : ConSat(c, a))

NeHyps == {h \in hypotheses : h.kind = "Ne"}
SingleHyps == {h \in hypotheses : h.kind \in SingleOptionKinds}

\* C4 as stated: with one disequality a # b among the hypotheses there are
\* exactly two scenarios, one holding a < b and the other b < a, and they
\* differ in nothing else.
C4_DifferOnlyInOrdering ==
    (Built /\ Cardinality(NeHyps) = 1) =>
       LET h == CHOOSE g \in NeHyps : TRUE
           lt == Rel("Lt", h.lhs, h.rhs)
           gt == Rel("Lt", h.rhs, h.lhs)
       IN /\ Len(scenarios) = 2
          /\ \E i, j \in 1..Len(scenarios) :
                /\ scenarios[i] \ scenarios[j] = {lt}
                /\ scenarios[j] \ scenarios[i] = {gt}

\* C4 amended: with one disequality a # b among the hypotheses there are
\* exactly two scenarios: the single-option hypotheses together with a < b,
\* and the same hypotheses together with b < a, an ordering the assumptions
\* decide standing as its truth value; when neither ordering is decided nor
\* already among the hypotheses, the two scenarios differ in exactly a < b
\* against b < a.
C4_TwoScenarios ==
    (Built /\ Cardinality(NeHyps) = 1) =>
       LET h == CHOOSE g \in NeHyps : TRUE
           lt == Rel("Lt", h.lhs, h.rhs)
           gt == Rel("Lt", h.rhs, h.lhs)
           open == /\ ~Decided("Lt", h.lhs, h.rhs)
                   /\ ~Decided("Lt", h.rhs, h.lhs)
                   /\ SingleHyps \cap {lt, gt} = {}
       IN /\ Len(scenarios) = 2
          /\ scenarios[1] \ SingleHyps \in {{lt}, {false}, {true}, {}}
          /\ scenarios[2] \ SingleHyps \in {{gt}, {false}, {true}, {}}
          /\ SingleHyps \subseteq scenarios[1] \cap scenarios[2]
          /\ ~Decided("Lt", h.lhs, h.rhs) => lt \in scenarios[1]
          /\ ~Decided("Lt", h.rhs, h.lhs) => gt \in scenarios[2]
          /\ open => /\ scenarios[1] \ scenarios[2] = {lt}
                     /\ scenarios[2] \ scenarios[1] = {gt}

C4_Witness ==
    /\ Built
    /\ Cardinality(NeHyps) = 1
    /\ Cardinality(SingleHyps) = 2
    /\ Len(scenarios) = 2
    /\ Cardinality(scenarios[1] \ scenarios[2]) = 1
    /\ Cardinality(scenarios[2] \ scenarios[1]) = 1
    /\ \A k \in 1..2 : ~(false \in scenarios[k])

\* The scenario the loop has just taken is the single hypothesis h.
JustTook(h) == Built /\ Taken >= 1 /\ scenarios[Taken] = {h}

Unit(t) == [u \in {t} |-> 1]

\* C5: a typed fact on a positive integer variable gives the single
\* constraint v >= 1 and never v > 0; on a positive variable not known to be
\* an integer, v > 0; on a merely non-negative one, v >= 0; any other typed
\* fact gives no constraint.
C5_IntegralityGap ==
    \A t \in Vars :
       JustTook(Type(t)) =>
          /\ t = "n" => /\ inequalities = OneBag([coeffs |-> Unit(t), rel |-> "geq", const |-> 1])
                        /\ \A c \in BagToSet(inequalities) : c.rel # "gt"
          /\ t = "p" => inequalities = OneBag([coeffs |-> Unit(t), rel |-> "gt", const |-> 0])
          /\ t = "q" => inequalities = OneBag([coeffs |-> Unit(t), rel |-> "geq", const |-> 0])
          /\ t \in {"x", "v"} => inequalities = EmptyBag
          /\ Len(calls) >= 1
          /\ calls[Len(calls)].input = BagToSet(inequalities)

C5_Witness ==
    /\ pc = "done"
    /\ JustTook(Type("n"))
    /\ Len(calls) = 1
    /\ inequalities # EmptyBag

RelOf(kind) ==
    CASE kind = "Eq" -> "eq"
      [] kind = "Le" -> "leq"
      [] kind = "Lt" -> "lt"
      [] kind = "Ge" -> "geq"
      [] kind = "Gt" -> "gt"

\* C10: for an equality or inequality L rel R over real quantities the
\* constraint built has the coefficients of L - R over its variables, the
\* negated constant term of L - R as its constant and the relation of the
\* hypothesis, so an assignment satisfies it exactly when it satisfies
\* L rel R.
C10_RelationalNormalization ==
    (Built /\ Taken >= 1 /\ Cardinality(scenarios[Taken]) = 1) =>
       \A h \in scenarios[Taken] :
          (h.kind \in {"Eq", "Le", "Lt", "Ge", "Gt"} /\ ~NonRealRelational(h)) =>
             /\ Cardinality(BagToSet(inequalities)) = 1
             /\ \A c \in BagToSet(inequalities) :
                   /\ inequalities = OneBag(c)
                   /\ c.rel = RelOf(h.kind)
                   /\ DOMAIN c.coeffs = {t \in Vars : h.lhs[t] # h.rhs[t]}
                   /\ \A t \in DOMAIN c.coeffs : c.coeffs[t] = h.lhs[t] - h.rhs[t]
                   /\ c.const = h.rhs[One] - h.lhs[One]
                   /\ \A a \in AssignmentsOver(VarsOf({h})) :
                         ConSat(c, a) <=> HypSat(h, a)

C10_Witness ==
    /\ pc = "done"
    /\ JustTook(Rel("Le", Plus(Times(2, ex), Num(1)), en))
    /\ \E c \in BagToSet(inequalities) :
          /\ c.const = 0 - 1
          /\ c.coeffs["x"] = 2
          /\ c.coeffs["n"] = 0 - 1

CertSet == ProofSet \cup (IF found_counterexample THEN {dict} ELSE {})
PrevCertSet == prev.proofs \cup (IF prev.found THEN {prev.dict} ELSE {})

\* C7 as stated: two invocations on the same hypotheses with the same
\* oracle, in whatever enumeration order, give the same verdict and, as
\* sets, the same certificates.
C7_SameCertificates ==
    (pc = "done" /\ prev.kind = "same") =>
       /\ found_counterexample = prev.found
       /\ CertSet = PrevCertSet

\* C7 amended: two invocations on the same hypotheses with the same oracle
\* give the same verdict in whatever order the scenarios are enumerated;
\* the certificates are the same, as sets, when the verdict is Proved or
\* when both invocations enumerate the scenarios in the same order.
C7_SameVerdict ==
    (pc = "done" /\ prev.kind = "same") =>
       /\ found_counterexample = prev.found
       /\ ~found_counterexample => CertSet = PrevCertSet
       /\ scenarios = prev.scenarios => CertSet = PrevCertSet

C7_Witness ==
    /\ pc = "done"
    /\ prev.kind = "same"
    /\ scenarios # prev.scenarios
    /\ ~found_counterexample
    /\ Cardinality(ProofSet) >= 3

====
